---- MODULE Spec2Model ----
(***************************************************************************)
(* A model of the AI code reviewer action.  Two programs of the repository *)
(* are modelled side by side and selected by the variable `variant`:       *)
(*   "queue"  : src/src/main.ts (live code, lines 323-592), whose comment  *)
(*              posts go through the hand-written RequestQueue;            *)
(*   "plimit" : src/unnamed/part_000, whose oracle calls and comment posts *)
(*              go through one shared pLimit(5) limiter.                   *)
(* JavaScript runs each synchronous segment to completion, so one action   *)
(* is one segment between two suspension points (await of a network call). *)
(***************************************************************************)
EXTENDS Integers, Sequences, FiniteSets, TLC

\* ------------------------------------------------------------------ bounds

\* At most this many comment posts are rejected by the host in one run.
MaxPostFailures == 2

\* ------------------------------------------------------- program constants

\* pLimit(5): the limiter's concurrency.
concurrency == 5

\* The maximum comment count the specification gives as the default.
maxComments == 10

\* Number(x) of a non-numeric x is NaN; it equals no line number.
NaN == -1

Variants == {"queue", "plimit"}

\* ------------------------------------------------------------- JSON values

JNull == [kind |-> "null"]
JUndefined == [kind |-> "undefined"]
JString(s) == [kind |-> "string", s |-> s]
JNumber(n) == [kind |-> "number", n |-> n]
JArray(items) == [kind |-> "array", items |-> items]

\* An element of a `reviews` array: {"lineNumber": ..., "reviewComment": ...}.
Finding(ln, body) == [lineNumber |-> ln, reviewComment |-> body]

\* JavaScript truthiness, as used by `if (aiResponse)`.
Truthy(v) ==
  CASE v.kind = "null" -> FALSE
    [] v.kind = "undefined" -> FALSE
    [] v.kind = "string" -> v.s # ""
    [] v.kind = "number" -> v.n # 0 /\ v.n # NaN
    [] OTHER -> TRUE

\* Number("...") of the strings the oracle is modelled to send.
StringToNumber(s) ==
  CASE s = "9" -> 9
    [] s = "11" -> 11
    [] s = " 12 " -> 12
    [] s = "40" -> 40
    [] s = "7" -> 7
    [] s = "99" -> 99
    [] s = "" -> 0
    [] OTHER -> NaN

\* Number(aiResponse.lineNumber).
Number(v) ==
  CASE v.kind = "number" -> v.n
    [] v.kind = "string" -> StringToNumber(v.s)
    [] v.kind = "null" -> 0
    [] v.kind = "undefined" -> NaN

\* ------------------------------------------------------------------- diffs

\* parse-diff changes: "add" and "del" carry ln, "normal" carries ln1 and ln2.
Add(n) == [type |-> "add", ln |-> n]
Del(n) == [type |-> "del", ln |-> n]
Normal(o, n) == [type |-> "normal", ln1 |-> o, ln2 |-> n]

\* The line numbers n of one change with change.ln === n || change.ln2 === n:
\* ln of an added or deleted line, ln2 of a normal line (ln1 is not read).
ChangeLines(c) == IF c.type = "normal" THEN {c.ln2} ELSE {c.ln}

\* The line numbers that chunk.changes.some(...) accepts for a chunk.
ChunkLines(chunk) ==
  UNION {ChangeLines(chunk.changes[i]) : i \in 1..Len(chunk.changes)}

PathNull == [kind |-> "null"]
Path(s) == [kind |-> "string", s |-> s]

\* file.to ?? "" and file.to || "".
PathOrEmpty(to) == IF to.kind = "null" THEN "" ELSE to.s

\* The skip test without its "/dev/null" case.
IsDeletedOrInvalidNoDevNull(file) ==
  \/ file.to.kind = "null"
  \/ file.to.s = ""

\* !file.to || file.to === "/dev/null"
IsDeletedOrInvalid(file) ==
  \/ file.to.kind = "null"
  \/ file.to.s = ""
  \/ file.to.s = "/dev/null"

ChunkA1 == [changes |-> <<Normal(9, 9), Add(10), Add(11), Add(12)>>]
ChunkA2 == [changes |-> <<Normal(39, 41), Del(40), Add(42)>>]
ChunkB1 == [changes |-> <<Add(7)>>]
ChunkC1 == [changes |-> <<Normal(10, 10), Add(11), Normal(11, 12)>>]
ChunkD1 == [changes |-> <<Del(10), Del(11)>>]

FileA == [to |-> Path("a.ts"), chunks |-> <<ChunkA1, ChunkA2>>]
FileB == [to |-> Path("lib/b.md"), chunks |-> <<ChunkB1>>]
FileC == [to |-> Path("src/c.ts"), chunks |-> <<ChunkC1>>]
FileDeleted == [to |-> Path("/dev/null"), chunks |-> <<ChunkD1>>]
FileNoTo == [to |-> PathNull, chunks |-> <<ChunkD1>>]
FileEmptyTo == [to |-> Path(""), chunks |-> <<ChunkD1>>]

\* The parsed diffs a run may receive.
Diffs ==
  { <<>>,
    <<FileA>>,
    <<FileB, FileDeleted, FileC>>,
    <<FileNoTo, FileB>>,
    <<FileEmptyTo>> }

\* ----------------------------------------------------- exclude patterns

\* core.getInput("exclude") as its characters, one token per character or
\* per path: "," separates, " " is white space, anything else is a path.
ExcludeInputs ==
  { <<>>,
    <<"a.ts">>,
    <<" ", "lib/b.md", ",", " ", "/dev/null", " ">> }

\* The tokens of s before its first ",".
RECURSIVE BeforeComma(_)
BeforeComma(s) ==
  IF s = <<>> \/ Head(s) = "," THEN <<>>
  ELSE <<Head(s)>> \o BeforeComma(Tail(s))

\* The tokens of s after its first ",", or <<>> when there is none.
RECURSIVE AfterComma(_)
AfterComma(s) ==
  IF s = <<>> THEN <<>>
  ELSE IF Head(s) = "," THEN Tail(s)
  ELSE AfterComma(Tail(s))

HasComma(s) == \E i \in 1..Len(s) : s[i] = ","

\* String.prototype.split(","): "" splits into [""].
RECURSIVE Split(_)
Split(s) ==
  IF HasComma(s) THEN <<BeforeComma(s)>> \o Split(AfterComma(s))
  ELSE <<s>>

RECURSIVE TrimLeft(_)
TrimLeft(s) ==
  IF s # <<>> /\ Head(s) = " " THEN TrimLeft(Tail(s)) ELSE s

RECURSIVE TrimRight(_)
TrimRight(s) ==
  IF s # <<>> /\ s[Len(s)] = " " THEN TrimRight(SubSeq(s, 1, Len(s) - 1))
  ELSE s

\* String.prototype.trim().
Trim(s) == TrimLeft(TrimRight(s))

\* core.getInput("exclude").split(",").map((s) => s.trim())
ExcludePatterns(input) ==
  LET parts == Split(input)
  IN [i \in 1..Len(parts) |-> Trim(parts[i])]

\* minimatch(path, pattern) for a pattern without glob characters: the
\* pattern matches exactly the path it spells; the empty pattern matches "".
minimatch(path, pattern) ==
  IF pattern = <<>> THEN path = "" ELSE pattern = <<path>>

\* The predicate of parsedDiff.filter(...): the file is kept.
NotExcluded(file, patterns) ==
  ~ \E i \in 1..Len(patterns) : minimatch(PathOrEmpty(file.to), patterns[i])

\* parsedDiff.filter(pred)
FilterDiff(diff, patterns) ==
  SelectSeq(diff, LAMBDA file : NotExcluded(file, patterns))

\* ---------------------------------------------------------- oracle replies

F11 == Finding(JString("11"), "fix this")
F12 == Finding(JString(" 12 "), "trim me")
F10n == Finding(JNumber(10), "numeric")
F9 == Finding(JString("9"), "context")
F40 == Finding(JString("40"), "old line")
F7 == Finding(JString("7"), "seven")
F99 == Finding(JString("99"), "x")
FAbc == Finding(JString("abc"), "nan")

\* A parsed JSON document: an object with or without `reviews`, or null.
Doc(reviews) == [kind |-> "object", hasReviews |-> TRUE, reviews |-> reviews]
DocNoReviews == [kind |-> "object", hasReviews |-> FALSE]
DocNull == [kind |-> "null"]

\* What openai.chat.completions.create settles with.
ReplyError == [kind |-> "error"]
ReplyEmpty == [kind |-> "content", text |-> "empty"]
ReplyGarbage == [kind |-> "content", text |-> "garbage"]
ReplyJson(doc) == [kind |-> "content", text |-> "json", fenced |-> FALSE, doc |-> doc]
ReplyFenced(doc) == [kind |-> "content", text |-> "json", fenced |-> TRUE, doc |-> doc]

Replies ==
  { ReplyError,
    ReplyEmpty,
    ReplyGarbage,
    ReplyJson(DocNoReviews),
    ReplyJson(Doc(JString("none"))),
    ReplyJson(Doc(JArray(<<>>))),
    ReplyJson(Doc(JArray(<<F11>>))),
    ReplyJson(Doc(JArray(<<F99, F7, FAbc>>))),
    ReplyFenced(Doc(JArray(<<F40>>))),
    ReplyJson(Doc(JArray(<<F10n, F11, F12, F9, F11, F10n>>))) }

\* response.choices[0].message?.content?.trim() || "{}"
ContentOrDefault(reply) ==
  IF reply.text = "empty" THEN ReplyJson(DocNoReviews) ELSE reply

\* removeMarkdown: the ```json fence is stripped from the text.
removeMarkdown(res) ==
  IF res.text = "json" THEN [res EXCEPT !.fenced = FALSE] ELSE res

\* JSON.parse(text): throws on text that is not JSON, fenced text included.
JsonParse(res) ==
  IF res.text = "json" /\ ~ res.fenced
  THEN [threw |-> FALSE, value |-> res.doc]
  ELSE [threw |-> TRUE]

\* parsed.reviews: throws on null, undefined when the field is absent.
ReviewsOf(parsed) ==
  IF parsed.threw \/ parsed.value.kind = "null" THEN [threw |-> TRUE]
  ELSE IF parsed.value.hasReviews
  THEN [threw |-> FALSE, value |-> parsed.value.reviews]
  ELSE [threw |-> FALSE, value |-> JUndefined]

\* getAIResponse of src/src/main.ts: every throw ends in `return null`.
getAIResponseQueue(reply) ==
  IF reply.kind = "error" THEN JNull
  ELSE LET r == ReviewsOf(JsonParse(removeMarkdown(ContentOrDefault(reply))))
       IN IF r.threw THEN JNull ELSE r.value

\* getAIResponse of src/unnamed/part_000: no fence stripping.
getAIResponsePLimit(reply) ==
  IF reply.kind = "error" THEN JNull
  ELSE LET r == ReviewsOf(JsonParse(ContentOrDefault(reply)))
       IN IF r.threw THEN JNull ELSE r.value

getAIResponse(v, reply) ==
  IF v = "queue" THEN getAIResponseQueue(reply) ELSE getAIResponsePLimit(reply)

\* createComment with the line taken one too far (a 0-based line number).
createCommentOffByOne(file, chunk, aiResponses) ==
  IF aiResponses.kind # "array" THEN [threw |-> TRUE]
  ELSE [threw |-> FALSE,
        comments |->
          [i \in 1..Len(aiResponses.items) |->
            [body |-> aiResponses.items[i].reviewComment,
             path |-> PathOrEmpty(file.to),
             line |-> Number(aiResponses.items[i].lineNumber) + 1]]]

\* createComment: aiResponses.map(...) throws when aiResponses is no array.
createComment(file, chunk, aiResponses) ==
  IF aiResponses.kind # "array" THEN [threw |-> TRUE]
  ELSE [threw |-> FALSE,
        comments |->
          [i \in 1..Len(aiResponses.items) |->
            [body |-> aiResponses.items[i].reviewComment,
             path |-> PathOrEmpty(file.to),
             line |-> Number(aiResponses.items[i].lineNumber)]]]

\* prDetails as getPRDetails returns it (only the title is used).
PRDetails == [title |-> "Add feature"]

\* createPrompt: the prompt as its segments in order: the instructions, the
\* file path, the pull request title and chunk.content (the hunk header).
createPrompt(file, chunk, prDetails) ==
  << [seg |-> "instructions", text |-> "default"],
     [seg |-> "file", to |-> PathOrEmpty(file.to)],
     [seg |-> "title", title |-> prDetails.title],
     [seg |-> "content", text |-> "hunk header"] >>

\* The new comments put in front of the list (unshift for push).
pushFront(list, new) == new \o list

\* comments.push(...newComments)
push(list, new) == list \o new

\* The body of analyzeCode's try block once the oracle call has settled:
\* the comments one chunk contributes.
ChunkComments(v, file, chunk, reply) ==
  LET aiResponse == getAIResponse(v, reply)
  IN IF ~ Truthy(aiResponse) THEN <<>>
     ELSE LET made == createComment(file, chunk, aiResponse)
          IN IF made.threw THEN <<>> ELSE made.comments

\* ------------------------------------------------------------ RequestQueue

\* processQueue reading queue[0] without shifting it off the queue.
processQueueNoShift(rq) ==
  IF rq.active \/ rq.queue = <<>> THEN rq
  ELSE [queue |-> rq.queue,
        active |-> TRUE,
        started |-> Append(rq.started, Head(rq.queue))]

\* processQueue taking the newest request (pop for shift).
processQueuePop(rq) ==
  IF rq.active \/ rq.queue = <<>> THEN rq
  ELSE [queue |-> SubSeq(rq.queue, 1, Len(rq.queue) - 1),
        active |-> TRUE,
        started |-> Append(rq.started, rq.queue[Len(rq.queue)])]

\* RequestQueue.processQueue up to its `await request()`: `started` collects
\* the requests whose call has been issued.
processQueue(rq) ==
  IF rq.active \/ rq.queue = <<>> THEN rq
  ELSE [queue |-> Tail(rq.queue),
        active |-> TRUE,
        started |-> Append(rq.started, Head(rq.queue))]

\* add without its call of processQueue: the request is only queued.
addNoProcess(rq, request) ==
  [rq EXCEPT !.queue = Append(@, request)]

\* RequestQueue.add
add(rq, request) ==
  processQueue([rq EXCEPT !.queue = Append(@, request)])

\* The `for (const comment of comments)` loop of createReviewComment.
RECURSIVE addAll(_, _)
addAll(rq, requests) ==
  IF requests = <<>> THEN rq
  ELSE addAll(add(rq, Head(requests)), Tail(requests))

\* processQueue after `await request()`: active = false, then processQueue().
processQueueResume(rq) ==
  processQueue([rq EXCEPT !.active = FALSE])

\* processQueue without its try/catch: a rejected request leaves the
\* function before `this.active = false`.
afterRequestNoCatch(rq, ok) ==
  IF ok THEN processQueueResume(rq) ELSE rq

\* processQueue once `await request()` has settled: a rejection is caught
\* and logged, and both outcomes go on to `this.active = false`.
afterRequest(rq, ok) == processQueueResume(rq)

\* ------------------------------------------------------------------ pLimit

\* The deferred start with the slot test off by one (<= for <).
limitRunOffByOne(lim) ==
  IF lim.activeCount <= concurrency /\ lim.queue # <<>>
  THEN [queue |-> Tail(lim.queue),
        activeCount |-> lim.activeCount + 1,
        started |-> Append(lim.started, Head(lim.queue))]
  ELSE lim

\* p-limit's deferred start: a queued job runs when a slot is free.
limitRun(lim) ==
  IF lim.activeCount < concurrency /\ lim.queue # <<>>
  THEN [queue |-> Tail(lim.queue),
        activeCount |-> lim.activeCount + 1,
        started |-> Append(lim.started, Head(lim.queue))]
  ELSE lim

\* limit(fn): enqueue, then try to start.
limit(lim, job) ==
  limitRun([lim EXCEPT !.queue = Append(@, job)])

\* requests.map(limit)
RECURSIVE limitAll(_, _)
limitAll(lim, jobs) ==
  IF jobs = <<>> THEN lim
  ELSE limitAll(limit(lim, Head(jobs)), Tail(jobs))

\* p-limit's next(): the settled job leaves, the next queued job starts.
limitNext(lim) ==
  limitRun([lim EXCEPT !.activeCount = @ - 1])

\* ------------------------------------------------------------- analyzeCode

\* The position of the next chunk analyzeCode sends to the oracle, starting
\* at chunk c of file f: deleted or invalid files are skipped, a file is
\* left after its last chunk; f = Len(diff) + 1 when no chunk is left.
RECURSIVE NextChunk(_, _, _)
NextChunk(diff, f, c) ==
  IF f > Len(diff) THEN [f |-> f, c |-> 1]
  ELSE IF IsDeletedOrInvalid(diff[f]) THEN NextChunk(diff, f + 1, 1)
  ELSE IF c > Len(diff[f].chunks) THEN NextChunk(diff, f + 1, 1)
  ELSE [f |-> f, c |-> c]

\* The chunk loop leaving analyzeCode at the first chunk without a result.
ResumeBreak(diff, f, c, aiResponse) ==
  IF Truthy(aiResponse) THEN NextChunk(diff, f, c + 1)
  ELSE [f |-> Len(diff) + 1, c |-> 1]

\* analyzeCode after the try/catch of chunk c of file f: the loops go on
\* with the next chunk whatever the oracle call returned.
Resume(diff, f, c, aiResponse) == NextChunk(diff, f, c + 1)

\* main() publishing whatever analyzeCode returned.
ShouldPublishAlways(list) == TRUE

\* main(): if (comments.length > 0)
ShouldPublish(list) == Len(list) > 0

\* The list main() hands to analyzeCode.
AnalyzedDiff(v, parsed, filtered) == parsed

\* ------------------------------------------------------------------- state

VARIABLES
  variant,        \* which program runs
  excludeInput,   \* the `exclude` input of the action
  pc,             \* where main() is
  eventAction,    \* eventData.action
  parsedDiff,     \* parseDiff(diff)
  filteredDiff,   \* part_000: parsedDiff without the excluded files
  fi,             \* analyzeCode: index of the current file
  ci,             \* analyzeCode: index of the current chunk
  comments,       \* analyzeCode: the comments collected
  origin,         \* for each comment, the <<file, chunk>> that produced it
  oracleLog,      \* the oracle calls: file, chunk, reply, returned value
  lookups,        \* number of listCommits calls issued
  commitId,       \* createReviewComment: commits[commits.length - 1].sha
  queue,          \* RequestQueue.queue (comment indices)
  active,         \* RequestQueue.active
  limQueue,       \* pLimit: queued jobs (0 = oracle call, i = post of comment i)
  activeCount,    \* pLimit: running jobs
  inflight,       \* calls issued and not settled (0 = oracle, i = post i)
  postLog,        \* the host createReviewComment calls issued, in order
  okPosts,        \* comments whose post the host accepted
  failedPosts,    \* comments whose post the host rejected
  diff,           \* main: the diff fetched
  commits,        \* createReviewComment: the data of listCommits
  mainError       \* the error main() rejected with, "none" when it did not

vars ==
  <<variant, excludeInput, pc, eventAction, parsedDiff, filteredDiff, fi, ci,
    comments, origin, oracleLog, lookups, commitId, queue, active, limQueue,
    activeCount, inflight, postLog, okPosts, failedPosts, diff, commits,
    mainError>>

NoCommit == "none"
EventActions == {"opened", "synchronize", "closed"}
CommitLists == {<<>>, <<"sha1">>, <<"sha1", "sha2">>}

\* response.data of the diff request.
DataNull == [kind |-> "null"]
DataEmpty == [kind |-> "string", empty |-> TRUE]
DataObject == [kind |-> "object"]
DataDiff(files) == [kind |-> "string", empty |-> FALSE, files |-> files]
DiffData == {DataNull, DataEmpty, DataObject} \cup {DataDiff(d) : d \in Diffs}

\* String(response.data): null and objects become non-empty text without
\* any file header.
String(data) ==
  IF data.kind = "string" THEN data ELSE DataDiff(<<>>)

\* !diff
Falsy(d) == d.kind = "null" \/ (d.kind = "string" /\ d.empty)

\* parseDiff(diff): the files of the text; no files for a value that is no
\* string or that is empty.
parseDiff(d) ==
  IF d.kind = "string" /\ ~d.empty THEN d.files ELSE <<>>

\* The diff before it is fetched.
DataUnset == [kind |-> "unset"]

Init ==
  /\ variant \in Variants
  /\ excludeInput \in ExcludeInputs
  /\ pc = "getPRDetails"
  /\ eventAction = "unread"
  /\ parsedDiff = <<>>
  /\ filteredDiff = <<>>
  /\ fi = 1
  /\ ci = 1
  /\ comments = <<>>
  /\ origin = <<>>
  /\ oracleLog = <<>>
  /\ lookups = 0
  /\ commitId = NoCommit
  /\ queue = <<>>
  /\ active = FALSE
  /\ limQueue = <<>>
  /\ activeCount = 0
  /\ inflight = {}
  /\ postLog = <<>>
  /\ okPosts = {}
  /\ failedPosts = {}
  /\ diff = DataUnset
  /\ commits = <<>>
  /\ mainError = "none"

\* ----------------------------------------------------------------- actions

Indices(n) == [i \in 1..n |-> i]
Range(s) == {s[i] : i \in 1..Len(s)}
\* The first commit of the list taken for the last.
LastFirst(s) == s[1]

\* commits[commits.length - 1]
Last(s) == s[Len(s)]

\* The post calls issued for the comments of `started`, against commit sha.
Posts(started, sha) ==
  [i \in 1..Len(started) |-> [comment |-> started[i], commit_id |-> sha]]

\* A catch handler that logs the error and lets the process end normally.
Exit1LogOnly == pc' = "done"

\* main().catch: the error is logged and process.exit(1) ends the process.
Exit1 == pc' = "exit1"

\* main() rejects with error e, which main().catch receives.
Reject(e) == mainError' = e /\ Exit1

\* await getPRDetails(): the event file is read, the pull request fetched.
getPRDetails ==
  /\ pc = "getPRDetails"
  /\ \E ok \in BOOLEAN :
       IF ok THEN pc' = "event" /\ UNCHANGED mainError
       ELSE Reject("getPRDetails")
  /\ UNCHANGED <<variant, excludeInput, eventAction, parsedDiff, filteredDiff,
                 fi, ci, comments, origin, oracleLog, lookups, commitId, queue,
                 active, limQueue, activeCount, inflight, postLog, okPosts,
                 failedPosts, diff, commits>>

\* The branch on eventData.action with a final else that requests the diff
\* of the pull request as for "opened".
branchElseGetDiff(a) ==
  CASE a = "synchronize" -> "compareCommits"
    [] OTHER -> "getDiff"

\* The branch on eventData.action: the request main() awaits next, or its
\* return on any other action.
branch(a) ==
  CASE a = "opened" -> "getDiff"
    [] a = "synchronize" -> "compareCommits"
    [] OTHER -> "done"

\* main(): the branch on eventData.action, up to the diff request.
readEvent ==
  /\ pc = "event"
  /\ \E a \in EventActions :
       /\ eventAction' = a
       /\ pc' = branch(a)
  /\ UNCHANGED <<variant, excludeInput, parsedDiff, filteredDiff, fi, ci,
                 comments, origin, oracleLog, lookups, commitId, queue, active,
                 limQueue, activeCount, inflight, postLog, okPosts,
                 failedPosts, diff, commits, mainError>>

\* main() from `if (!diff)` to the first suspension of analyzeCode.
Review(d) ==
  /\ diff' = d
  /\ IF Falsy(d)
     THEN /\ pc' = "done"
          /\ UNCHANGED <<parsedDiff, filteredDiff, fi, ci, inflight,
                         activeCount, mainError>>
     ELSE LET files == parseDiff(d)
              filtered == IF variant = "plimit"
                          THEN FilterDiff(files, ExcludePatterns(excludeInput))
                          ELSE <<>>
              list == AnalyzedDiff(variant, files, filtered)
              pos == NextChunk(list, 1, 1)
              more == pos.f <= Len(list)
              lim == limit([queue |-> limQueue, activeCount |-> activeCount,
                            started |-> <<>>], 0)
          IN /\ parsedDiff' = files
             /\ filteredDiff' = filtered
             /\ fi' = pos.f
             /\ ci' = pos.c
             /\ pc' = IF more THEN "oracle" ELSE "done"
             /\ inflight' = IF more THEN {0} ELSE {}
             /\ activeCount' = IF more /\ variant = "plimit"
                               THEN lim.activeCount ELSE activeCount
             /\ UNCHANGED mainError

\* await getDiff(...) settles; the diff is response.data as it is.
getDiff ==
  /\ pc = "getDiff"
  /\ \/ /\ Reject("getDiff")
        /\ UNCHANGED <<parsedDiff, filteredDiff, fi, ci, inflight, activeCount,
                       diff>>
     \/ \E data \in DiffData : Review(data)
  /\ UNCHANGED <<variant, excludeInput, eventAction, comments, origin,
                 oracleLog, lookups, commitId, queue, active, limQueue,
                 postLog, okPosts, failedPosts, commits>>

\* await octokit.repos.compareCommits(...) settles; diff = String(data).
compareCommits ==
  /\ pc = "compareCommits"
  /\ \/ /\ Reject("compareCommits")
        /\ UNCHANGED <<parsedDiff, filteredDiff, fi, ci, inflight, activeCount,
                       diff>>
     \/ \E data \in DiffData : Review(String(data))
  /\ UNCHANGED <<variant, excludeInput, eventAction, comments, origin,
                 oracleLog, lookups, commitId, queue, active, limQueue,
                 postLog, okPosts, failedPosts, commits>>

\* analyzeCode: the oracle call of chunk <<fi, ci>> settles; the chunk's
\* comments are appended and the loops run on to the next oracle call, or
\* analyzeCode returns and main() goes on to `if (comments.length > 0)`.
oracleSettles ==
  /\ pc = "oracle"
  /\ \E reply \in Replies :
       LET list == AnalyzedDiff(variant, parsedDiff, filteredDiff)
           file == list[fi]
           chunk == file.chunks[ci]
           new == ChunkComments(variant, file, chunk, reply)
           all == push(comments, new)
           pos == Resume(list, fi, ci, getAIResponse(variant, reply))
           more == pos.f <= Len(list)
           publish == ~ more /\ ShouldPublish(all)
       IN /\ comments' = all
          /\ origin' = push(origin, [i \in 1..Len(new) |-> <<fi, ci>>])
          /\ oracleLog' = Append(oracleLog,
                                 [f |-> fi, c |-> ci, reply |-> reply,
                                  returned |-> getAIResponse(variant, reply),
                                  prompt |-> createPrompt(file, chunk,
                                                          PRDetails)])
          /\ fi' = pos.f
          /\ ci' = pos.c
          /\ inflight' = IF more THEN {0} ELSE {}
          /\ activeCount' =
               IF variant = "plimit"
               THEN LET freed == limitNext([queue |-> limQueue,
                                            activeCount |-> activeCount,
                                            started |-> <<>>])
                    IN IF more THEN limit(freed, 0).activeCount
                       ELSE freed.activeCount
               ELSE activeCount
          /\ pc' = IF more THEN "oracle"
                   ELSE IF publish THEN "listCommits" ELSE "done"
          /\ lookups' = IF publish THEN lookups + 1 ELSE lookups
  /\ UNCHANGED <<variant, excludeInput, eventAction, parsedDiff, filteredDiff,
                 commitId, queue, active, limQueue, postLog, okPosts,
                 failedPosts, diff, commits, mainError>>

\* createReviewComment of src/src/main.ts after listCommits: every comment
\* is added to the RequestQueue, then the function returns and main() ends.
publishQueue(sha) ==
  LET rq == addAll([queue |-> queue, active |-> active, started |-> <<>>],
                   Indices(Len(comments)))
  IN /\ queue' = rq.queue
     /\ active' = rq.active
     /\ postLog' = postLog \o Posts(rq.started, sha)
     /\ inflight' = Range(rq.started)
     /\ pc' = "done"
     /\ UNCHANGED <<limQueue, activeCount>>

\* createReviewComment of src/unnamed/part_000 after listCommits: every
\* request goes through limit, then Promise.all is awaited.
publishPLimit(sha) ==
  LET lim == limitAll([queue |-> limQueue, activeCount |-> activeCount,
                       started |-> <<>>],
                      Indices(Len(comments)))
  IN /\ limQueue' = lim.queue
     /\ activeCount' = lim.activeCount
     /\ postLog' = postLog \o Posts(lim.started, sha)
     /\ inflight' = Range(lim.started)
     /\ pc' = "awaitAll"
     /\ UNCHANGED <<queue, active>>

\* await octokit.pulls.listCommits(...) settles.
listCommitsSettles ==
  /\ pc = "listCommits"
  /\ \/ /\ Reject("listCommits")
        /\ UNCHANGED <<commitId, queue, active, limQueue, activeCount,
                       inflight, postLog, commits>>
     \/ \E data \in CommitLists :
          /\ commits' = data
          /\ IF data = <<>>
             THEN /\ Reject("commitId")
                  /\ UNCHANGED <<commitId, queue, active, limQueue,
                                 activeCount, inflight, postLog>>
             ELSE /\ commitId' = Last(data)
                  /\ UNCHANGED mainError
                  /\ IF variant = "queue"
                     THEN publishQueue(Last(data))
                     ELSE publishPLimit(Last(data))
  /\ UNCHANGED <<variant, excludeInput, eventAction, parsedDiff, filteredDiff,
                 fi, ci, comments, origin, oracleLog, lookups, okPosts,
                 failedPosts, diff>>

\* src/src/main.ts: the post of comment i settles inside processQueue; a
\* rejection is caught and logged, then the next request is started.
postSettlesQueue ==
  /\ variant = "queue"
  /\ pc = "done"
  /\ \E i \in inflight, ok \in BOOLEAN :
       LET rq == afterRequest([queue |-> queue, active |-> active,
                               started |-> <<>>], ok)
       IN /\ ok \/ Cardinality(failedPosts) < MaxPostFailures
          /\ okPosts' = IF ok THEN okPosts \cup {i} ELSE okPosts
          /\ failedPosts' = IF ok THEN failedPosts ELSE failedPosts \cup {i}
          /\ queue' = rq.queue
          /\ active' = rq.active
          /\ postLog' = postLog \o Posts(rq.started, commitId)
          /\ inflight' = (inflight \ {i}) \cup Range(rq.started)
  /\ UNCHANGED <<variant, excludeInput, pc, eventAction, parsedDiff,
                 filteredDiff, fi, ci, comments, origin, oracleLog, lookups,
                 commitId, limQueue, activeCount, diff, commits, mainError>>

\* src/unnamed/part_000: the post of comment i settles; p-limit starts the
\* next queued post; Promise.all resolves after the last post, and rejects
\* on the first rejected post, which main() does not catch.
postSettlesPLimit ==
  /\ variant = "plimit"
  /\ pc = "awaitAll"
  /\ \E i \in inflight, ok \in BOOLEAN :
       LET lim == limitNext([queue |-> limQueue, activeCount |-> activeCount,
                             started |-> <<>>])
       IN /\ okPosts' = IF ok THEN okPosts \cup {i} ELSE okPosts
          /\ failedPosts' = IF ok THEN failedPosts ELSE failedPosts \cup {i}
          /\ limQueue' = lim.queue
          /\ activeCount' = lim.activeCount
          /\ postLog' = postLog \o Posts(lim.started, commitId)
          /\ inflight' = (inflight \ {i}) \cup Range(lim.started)
          /\ IF ~ ok THEN Reject("createReviewComment")
             ELSE /\ pc' = IF okPosts \cup {i} = 1..Len(comments)
                           THEN "done" ELSE "awaitAll"
                  /\ UNCHANGED mainError
  /\ UNCHANGED <<variant, excludeInput, eventAction, parsedDiff, filteredDiff,
                 fi, ci, comments, origin, oracleLog, lookups, commitId, queue,
                 active, diff, commits>>

Next ==
  \/ getPRDetails
  \/ readEvent
  \/ getDiff
  \/ compareCommits
  \/ oracleSettles
  \/ listCommitsSettles
  \/ postSettlesQueue
  \/ postSettlesPLimit

Spec == Init /\ [][Next]_vars

\* ------------------------------------------------------------- properties

\* The list analyzeCode iterates over in the current run.
Analyzed == AnalyzedDiff(variant, parsedDiff, filteredDiff)

\* The chunk whose oracle reply produced comment i.
OriginChunk(i) == Analyzed[origin[i][1]].chunks[origin[i][2]]

\* The indices of the comments produced by chunk c of file f.
CommentsOf(f, c) == {i \in 1..Len(comments) : origin[i] = <<f, c>>}

\* How many post calls were issued for comment i.
PostCount(i) == Cardinality({k \in 1..Len(postLog) : postLog[k].comment = i})

\* How many queued requests (of either limiter) are for comment i.
QueuedCount(i) ==
  Cardinality({k \in 1..Len(queue) : queue[k] = i})
    + Cardinality({k \in 1..Len(limQueue) : limQueue[k] = i})

\* The positions of the chunks of the files that are neither deleted nor
\* invalid, in diff order.
RECURSIVE LiveChunks(_, _)
LiveChunks(list, f) ==
  IF f > Len(list) THEN <<>>
  ELSE (IF IsDeletedOrInvalid(list[f]) THEN <<>>
        ELSE [c \in 1..Len(list[f].chunks) |-> <<f, c>>])
       \o LiveChunks(list, f + 1)

\* analyzeCode has returned.
AnalysisOver == pc \in {"listCommits", "awaitAll", "done"} /\ eventAction # "closed"

\* The old and new line numbers of the changes of a chunk: ln of an added or
\* deleted line, ln1 and ln2 of a normal line.
OldNewLines(chunk) ==
  UNION {IF chunk.changes[i].type = "normal"
         THEN {chunk.changes[i].ln1, chunk.changes[i].ln2}
         ELSE {chunk.changes[i].ln} : i \in 1..Len(chunk.changes)}

\* C1: every comment handed on by createComment has a line that is an old
\* or new line number of a change of the chunk whose reply produced it.
C1_LineContainment ==
  \A i \in 1..Len(comments) : comments[i].line \in OldNewLines(OriginChunk(i))

\* C2: no chunk of a file whose destination path matches an exclude pattern
\* is sent to the oracle.
C2_Exclusion ==
  \A k \in 1..Len(oracleLog) :
    NotExcluded(Analyzed[oracleLog[k].f], ExcludePatterns(excludeInput))

\* C3: neither the list analyzeCode returns nor the posts createReviewComment
\* issues ever number more than the maximum comment count.
C3_CapInvariant ==
  /\ Len(comments) <= maxComments
  /\ Len(postLog) <= maxComments

\* The oracle call failed, or its reply is no JSON, has no `reviews`, or has
\* a `reviews` that is no array.
BadReply(reply) ==
  \/ reply.kind = "error"
  \/ reply.text \in {"garbage", "empty"}
  \/ /\ reply.text = "json"
     /\ ~ reply.fenced
     /\ \/ ~ reply.doc.hasReviews
        \/ reply.doc.reviews.kind # "array"

\* C4: a chunk whose oracle call failed or returned a malformed reply
\* contributes no comment; the calls made are the chunks of the live files
\* in diff order, all of them once analyzeCode has returned; every chunk
\* whose call returned an array has one comment per element in the list.
C4_ChunkIsolation ==
  /\ \A k \in 1..Len(oracleLog) :
       /\ BadReply(oracleLog[k].reply)
            => CommentsOf(oracleLog[k].f, oracleLog[k].c) = {}
       /\ oracleLog[k].returned.kind = "array"
            => Cardinality(CommentsOf(oracleLog[k].f, oracleLog[k].c))
                 = Len(oracleLog[k].returned.items)
  /\ Len(oracleLog) <= Len(LiveChunks(Analyzed, 1))
  /\ \A k \in 1..Len(oracleLog) :
       <<oracleLog[k].f, oracleLog[k].c>> = LiveChunks(Analyzed, 1)[k]
  /\ pc = "oracle" => <<fi, ci>> = LiveChunks(Analyzed, 1)[Len(oracleLog) + 1]
  /\ AnalysisOver => Len(oracleLog) = Len(LiveChunks(Analyzed, 1))

\* C4 witness: analyzeCode has returned, the first chunk's call failed or
\* was malformed, and a later chunk contributed comments.
C4_Witness ==
  /\ AnalysisOver
  /\ Len(oracleLog) >= 2
  /\ BadReply(oracleLog[1].reply)
  /\ CommentsOf(oracleLog[2].f, oracleLog[2].c) # {}

\* C5: when the host rejects the post of a comment, the run is not aborted
\* and every other comment is posted once no call is outstanding.
C5_PublishIsolation ==
  failedPosts # {} =>
    /\ pc # "exit1"
    /\ inflight = {} => \A i \in 1..Len(comments) : PostCount(i) = 1

\* C6: with pLimit(5) at most 5 guarded calls (oracle calls and comment
\* posts together) are outstanding; with the RequestQueue at most one queued
\* request is executing.
C6_ConcurrencyBound ==
  /\ variant = "plimit" => Cardinality(inflight) <= concurrency
  /\ variant = "queue" => Cardinality(inflight \ {0}) <= 1

\* C6 witness: the limiter is saturated with posts and more are queued.
C6_Witness ==
  /\ variant = "plimit"
  /\ Cardinality(inflight) = concurrency
  /\ limQueue # <<>>
  /\ okPosts # {}

\* C7: getAIResponse returns null on a failed call, on a reply that is no
\* JSON and on a parsed reply without `reviews`; it returns a list only for
\* a reply that parses and has a `reviews` field.
C7_NullOnFailure ==
  \A k \in 1..Len(oracleLog) :
    LET reply == oracleLog[k].reply
        returned == oracleLog[k].returned
    IN /\ ( \/ reply.kind = "error"
            \/ reply.text \in {"garbage", "empty"}
            \/ (reply.text = "json" /\ ~ reply.doc.hasReviews) )
          => returned = JNull
       /\ returned.kind = "array"
          => (reply.kind = "content" /\ reply.text = "json"
              /\ reply.doc.hasReviews)

\* Every oracle call of the run so far failed, and there was one.
OracleUnreachable ==
  /\ oracleLog # <<>>
  /\ \A k \in 1..Len(oracleLog) : oracleLog[k].reply = ReplyError

\* C8: in a run whose oracle calls all fail, main() does not reject (no
\* process.exit(1)), analyzeCode's list stays empty, and no commit lookup
\* and no comment post is issued.
C8_OracleUnreachable ==
  OracleUnreachable =>
    /\ pc \in {"oracle", "done"}
    /\ comments = <<>>
    /\ lookups = 0
    /\ postLog = <<>>
    /\ inflight \subseteq {0}

\* C8 witness: main() has resolved after two or more failed oracle calls.
C8_Witness ==
  /\ OracleUnreachable
  /\ Len(oracleLog) >= 2
  /\ pc = "done"

\* C9: no comment is posted twice; while the run continues, every comment
\* handed to createReviewComment is either still queued once or has been
\* posted once, and a settled post was issued exactly once.
C9_ExactlyOnce ==
  /\ \A k \in 1..Len(postLog) : postLog[k].comment \in 1..Len(comments)
  /\ \A i \in 1..Len(comments) :
       /\ PostCount(i) <= 1
       /\ (commitId # NoCommit /\ pc # "exit1")
            => PostCount(i) + QueuedCount(i) = 1
       /\ i \in okPosts \cup failedPosts => PostCount(i) = 1

\* C9 witness: the RequestQueue has drained after a rejected post, with
\* three or more comments all posted.
C9_Witness ==
  /\ variant = "queue"
  /\ Len(comments) >= 3
  /\ failedPosts # {}
  /\ queue = <<>>
  /\ inflight = {}
  /\ okPosts \cup failedPosts = 1..Len(comments)

\* The reply is a `reviews` array (fenced only where the fence is stripped)
\* whose line numbers are all present in the chunk.
WellFormed(v, chunk, reply) ==
  /\ reply.kind = "content"
  /\ reply.text = "json"
  /\ v = "queue" \/ ~ reply.fenced
  /\ reply.doc.hasReviews
  /\ reply.doc.reviews.kind = "array"
  /\ \A j \in 1..Len(reply.doc.reviews.items) :
       Number(reply.doc.reviews.items[j].lineNumber) \in ChunkLines(chunk)

\* The one-to-one mapping of the findings of call k to comments.
Mapped(k) ==
  LET items == oracleLog[k].reply.doc.reviews.items
  IN [j \in 1..Len(items) |->
       [path |-> Analyzed[oracleLog[k].f].to.s,
        line |-> Number(items[j].lineNumber),
        body |-> items[j].reviewComment]]

RECURSIVE MappedUpTo(_)
MappedUpTo(k) == IF k = 0 THEN <<>> ELSE MappedUpTo(k - 1) \o Mapped(k)

\* Every oracle reply so far was well formed with lines of its chunk.
AllWellFormed ==
  \A k \in 1..Len(oracleLog) :
    WellFormed(variant,
               Analyzed[oracleLog[k].f].chunks[oracleLog[k].c],
               oracleLog[k].reply)

\* C10: when every reply is a well-formed `reviews` array with lines of its
\* chunk, analyzeCode's list is exactly the findings mapped one to one to
\* {path, line, body}, and once publication is over the posts issued are
\* those of the list, one each, in order.
C10_RoundTrip ==
  AllWellFormed =>
    /\ comments = MappedUpTo(Len(oracleLog))
    /\ (pc = "done" /\ inflight = {} /\ commitId # NoCommit)
         => [k \in 1..Len(postLog) |-> postLog[k].comment]
              = Indices(Len(comments))

\* C10 witness: a finished run with two well-formed non-empty replies.
C10_Witness ==
  /\ AllWellFormed
  /\ Len(oracleLog) = 2
  /\ oracleLog[1].reply.doc.reviews.items # <<>>
  /\ oracleLog[2].reply.doc.reviews.items # <<>>
  /\ pc = "done"
  /\ inflight = {}
  /\ Len(postLog) = Len(comments)

\* The posts outstanding (the oracle call, job 0, left out).
InflightPosts == inflight \ {0}

\* The destination path is missing, empty or "/dev/null".
NoDestination(file) ==
  \/ file.to.kind = "null"
  \/ file.to.s \in {"", "/dev/null"}

\* C11: requests start in the order they were added: the k-th post issued
\* is the post of the k-th comment handed to the limiter, whatever the
\* outcome of the earlier posts.
C11_FifoAdmission ==
  \A k \in 1..Len(postLog) : postLog[k].comment = k

\* C11 witness: the RequestQueue has started a third request after an
\* earlier request was rejected.
C11_Witness ==
  /\ variant = "queue"
  /\ Len(postLog) >= 3
  /\ failedPosts # {}
  /\ queue # <<>>

\* C12: a slot is held exactly while its call is outstanding: the
\* RequestQueue is active exactly when a request is executing, a non-empty
\* queue always has a request executing (also after a rejected request),
\* and pLimit's activeCount is the number of calls outstanding.
C12_UnconditionalRelease ==
  /\ variant = "queue" =>
       /\ active <=> InflightPosts # {}
       /\ queue # <<>> => active
  /\ variant = "plimit" => activeCount = Cardinality(inflight)

\* C12 witness: after a rejected request the RequestQueue is executing a
\* later request.
C12_Witness ==
  /\ variant = "queue"
  /\ active
  /\ \E i \in failedPosts : \E j \in InflightPosts : j > i

\* C13: no oracle call is made for a chunk of a file whose destination path
\* is missing, empty or "/dev/null", and no comment carries such a path.
C13_DeletedFileSkip ==
  /\ \A k \in 1..Len(oracleLog) : ~ NoDestination(Analyzed[oracleLog[k].f])
  /\ \A i \in 1..Len(comments) : comments[i].path \notin {"", "/dev/null"}

\* C13 witness: analyzeCode has returned with comments from a diff whose
\* second file is deleted and whose third file was analysed.
C13_Witness ==
  /\ AnalysisOver
  /\ Len(Analyzed) = 3
  /\ NoDestination(Analyzed[2])
  /\ CommentsOf(3, 1) # {}

\* C14: main() rejects exactly in the runs that end in process.exit(1), and
\* once main() has resolved the process never calls process.exit(1).
C14_ExitBehaviour ==
  /\ [](mainError # "none" <=> pc = "exit1")
  /\ [][pc = "done" => pc' = "done"]_vars

\* C14 witness: the commit lookup failed after analyzeCode returned
\* comments, and the process has exited with status 1.
C14_Witness ==
  /\ mainError = "listCommits"
  /\ pc = "exit1"
  /\ comments # <<>>

\* The resolved line number of a change: the new line number when the
\* change has one, the old line number otherwise.
ResolvedLine(change) ==
  IF change.type = "normal" THEN change.ln2 ELSE change.ln

\* The line annotations of a prompt, in order.
Annotations(prompt) ==
  LET entries == SelectSeq(prompt, LAMBDA e : e.seg = "change")
  IN [i \in 1..Len(entries) |-> entries[i].line]

\* C15: the prompt of every chunk sent to the oracle has one entry per
\* change of the chunk, in diff order, annotated with its resolved line.
C15_PromptAnnotation ==
  \A k \in 1..Len(oracleLog) :
    LET changes == Analyzed[oracleLog[k].f].chunks[oracleLog[k].c].changes
    IN Annotations(oracleLog[k].prompt)
         = [i \in 1..Len(changes) |-> ResolvedLine(changes[i])]

\* <<f1, c1>> is before or at <<f2, c2>> in diff order.
Before(p, q) == p[1] < q[1] \/ (p[1] = q[1] /\ p[2] <= q[2])

\* C16: one oracle call at a time, in file order then chunk order: a call
\* is outstanding exactly while analyzeCode awaits it, the chunk awaited is
\* after every chunk already called, the comments of every chunk already
\* called are in the list, and the list is in diff order.
C16_SequentialDiffOrder ==
  /\ 0 \in inflight <=> pc = "oracle"
  /\ variant = "plimit" /\ pc = "oracle" => activeCount = 1
  /\ \A k \in 1..Len(oracleLog) - 1 :
       /\ Before(<<oracleLog[k].f, oracleLog[k].c>>,
                 <<oracleLog[k + 1].f, oracleLog[k + 1].c>>)
       /\ <<oracleLog[k].f, oracleLog[k].c>>
            # <<oracleLog[k + 1].f, oracleLog[k + 1].c>>
  /\ \A k \in 1..Len(oracleLog) :
       pc = "oracle" =>
         /\ Before(<<oracleLog[k].f, oracleLog[k].c>>, <<fi, ci>>)
         /\ <<oracleLog[k].f, oracleLog[k].c>> # <<fi, ci>>
  /\ \A i \in 1..Len(origin) - 1 : Before(origin[i], origin[i + 1])
  /\ \A i \in 1..Len(origin) :
       \E k \in 1..Len(oracleLog) :
         origin[i] = <<oracleLog[k].f, oracleLog[k].c>>

\* C16 witness: a call is outstanding for the last of three files while the
\* list already holds comments of the first file.
C16_Witness ==
  /\ pc = "oracle"
  /\ fi = 3
  /\ CommentsOf(1, 1) # {}

\* C17: once createReviewComment has settled (main() has resolved after a
\* commit lookup, or rejected after one), every comment's post has been
\* issued and has settled: nothing is queued and nothing is outstanding.
C17_PublicationComplete ==
  (pc \in {"done", "exit1"} /\ commitId # NoCommit) =>
    /\ queue = <<>>
    /\ limQueue = <<>>
    /\ inflight = {}
    /\ okPosts \cup failedPosts = 1..Len(comments)

\* The RequestQueue is quiescent with every request started.
Quiescent ==
  /\ queue = <<>>
  /\ ~ active
  /\ \A i \in 1..Len(comments) : PostCount(i) = 1

\* C18: in the RequestQueue there is never a non-empty queue without a
\* request executing (no lost wake-up), and when every request settles
\* every request added is started and the queue reaches quiescence.
C18_QueueProgress ==
  /\ [](queue # <<>> => (active /\ InflightPosts # {}))
  /\ (commitId # NoCommit) ~> Quiescent

\* C18 witness: quiescence is reached after three or more requests, one of
\* them rejected.
C18_Witness ==
  /\ commitId # NoCommit
  /\ Quiescent
  /\ Len(comments) >= 3
  /\ failedPosts # {}
  /\ inflight = {}

\* C19: a post is issued only after analyzeCode has made every oracle call
\* and after the commit lookup has completed, and every post is made
\* against the same commit, the last of the list.
C19_PhaseOrdering ==
  /\ postLog # <<>> =>
       /\ pc \notin {"getPRDetails", "event", "getDiff", "compareCommits",
                     "oracle", "listCommits"}
       /\ 0 \notin inflight
       /\ Len(oracleLog) = Len(LiveChunks(Analyzed, 1))
       /\ lookups = 1
       /\ commits # <<>>
  /\ lookups <= 1
  /\ \A k \in 1..Len(postLog) : postLog[k].commit_id = commits[Len(commits)]

\* C19 witness: several posts were issued against the last of two commits.
C19_Witness ==
  /\ Len(commits) = 2
  /\ Len(postLog) >= 2
  /\ okPosts # {}

\* The event is neither "opened" nor "synchronize", or the diff main()
\* holds is null or empty.
NoWork ==
  \/ eventAction \notin {"unread", "opened", "synchronize"}
  \/ diff.kind = "null"
  \/ (diff.kind = "string" /\ diff.empty)

\* C20: on an unsupported event and on a null or empty diff main() returns
\* without any oracle call, commit lookup or comment post, and without
\* process.exit(1).
C20_NoWorkExits ==
  NoWork =>
    /\ pc = "done"
    /\ mainError = "none"
    /\ oracleLog = <<>>
    /\ lookups = 0
    /\ postLog = <<>>
    /\ inflight = {}

\* C20 witness: main() has returned on a null diff of an opened pull
\* request.
C20_Witness ==
  /\ eventAction = "opened"
  /\ diff.kind = "null"
  /\ pc = "done"

\* ------------------------------------------- the RequestQueue program alone

InitQueue == Init /\ variant = "queue" /\ excludeInput = <<>>

NextQueue ==
  \/ getPRDetails
  \/ readEvent
  \/ getDiff
  \/ compareCommits
  \/ oracleSettles
  \/ listCommitsSettles
  \/ postSettlesQueue

\* src/src/main.ts under fair scheduling: every post issued settles.
QueueSpec ==
  InitQueue /\ [][NextQueue]_vars /\ WF_vars(postSettlesQueue)

====
